---- MODULE Spec2Model ----
(***************************************************************************)
(* Therefore-Extractor: the gather (sync) phase that reconciles upstream   *)
(* document rows into a per-tenant SQLite ledger, and the process (index)  *)
(* phase that reconciles the ledger into a per-tenant Chroma collection.   *)
(*                                                                         *)
(* One run is active at a time (run_pipeline.py calls the two phases one   *)
(* after the other; each phase is also a script of its own), so one        *)
(* program counter `pc` serves both phases.  Both phases run over every    *)
(* configured tenant, except in SpecPipeline, where --tenant names one.    *)
(*                                                                         *)
(* SpecSync runs the gather phase step by step against an upstream service *)
(* whose content changes between runs.  Spec runs the process phase step   *)
(* by step; there a gather run appears as one step (LedgerSync).           *)
(* SpecQuery calls query_all_category_documents on its own, with max_rows  *)
(* as an input and a service that does not honour it; SpecChunk calls      *)
(* chunk_text on its own, with the text, chunk size and overlap as inputs; *)
(* SpecTree calls get_all_categories on its own, with the tree as input.   *)
(* SpecPipeline runs run_pipeline for one tenant: the gather phase (one    *)
(* step per tenant) and then the process phase, step by step.              *)
(***************************************************************************)
EXTENDS Integers, Sequences, FiniteSets, TLC

\* ------------------------------------------------------------------ bounds
MaxDocNo == 2
MaxVersion == 2
MaxCatRows == 2
MaxBlocks == 3
MaxUpdates == 2
MaxSyncRuns == 2
MaxFiles == 2
MaxLedgerSyncs == 3
MaxIndexRuns == 2
MaxRowsArg == 3
MaxTextLen == 7
MaxChunkSize == 4
MaxTreeDepth == 2
MaxTreeItems == 2
MaxTreeKeys == 2

\* ------------------------------------------------------- program constants
DEFAULT_CHUNK_SIZE == 500
DEFAULT_OVERLAP == 50
DEFAULT_MAX_ROWS == 5000000

\* ------------------------------------------------------------ configuration
\* config['Tenants'], in configuration order; each has 'Tenant' and an
\* optional 'categories' allow-list (an empty list is falsy: no filtering).
Tenants == <<"A", "B">>
TenantNames == {Tenants[i] : i \in 1..Len(Tenants)}
TenantCategories == [t \in TenantNames |-> IF t = "B" THEN {2} ELSE {}]

\* The category numbers (ItemNo) the upstream tree lists, in traversal order.
Taxonomy == <<1, 2>>
Categories == {Taxonomy[i] : i \in 1..Len(Taxonomy)}

DocNos == 1..MaxDocNo
\* The documents each tenant's service holds: tenant B holds a single one.
UpstreamDocs == [t \in TenantNames |-> IF t = "A" THEN DocNos ELSE {1}]
Versions == 1..MaxVersion
\* A result row of the upstream query: row.get('DocNo'), row.get('VersionNo').
Rows == [DocNo : DocNos, VersionNo : Versions]

RECURSIVE SeqsUpTo(_, _)
SeqsUpTo(S, n) ==
    IF n = 0 THEN {<<>>}
    ELSE LET shorter == SeqsUpTo(S, n - 1)
         IN shorter \cup {Append(s, x) : s \in {r \in shorter : Len(r) = n - 1}, x \in S}

\* What the upstream service can hold for one category.
UpstreamContents == SeqsUpTo(Rows, MaxCatRows)

None == 0

VARIABLES
    upstream,       \* [tenant -> [category -> rows the service holds]]
    updates,        \* number of upstream changes so far
    ledger,         \* [tenant -> [DocNo -> Version]]: table `documents`
    dbfile,         \* tenants whose <tenant>.db exists
    pc,             \* position of the running phase
    gi,             \* index into tenant_configs of the gather loop
    category_list,  \* result of get_all_categories
    ci,             \* index into category_list
    qblocks,        \* blocks the open query still has to serve
    served,         \* blocks served for the open query: <<rows, HasRemainingRows>>
    all_rows,       \* query_all_category_documents: all_rows
    has_remaining,  \* query_all_category_documents: has_remaining
    rows,           \* gatherer: rows
    doc_count,      \* gatherer: doc_count of the tenant in progress
    tree_status,    \* HTTP status of the tree response get_all_categories read
    returned,       \* [tenant -> [DocNo -> the one VersionNo the run's fetches returned]]
    max_rows,       \* query_all_category_documents: max_rows
    tenant_name,    \* the --tenant argument of the program; "" when not given
    syncRuns,       \* number of gather runs started
    glog,           \* what the gather run has logged for the tenant in progress
    tlog,           \* one entry per tenant the gather run is done with
    prevClean,      \* the last gather run met no error, upstream unchanged since
    maxSeen,        \* [tenant -> [DocNo -> highest VersionNo reconciled so far]]
    index,          \* [tenant -> chunk records of the collection "documents"]
    p_i,            \* index into tenant_configs of the process loop
    docs_to_process, \* process_tenant: rows (DocNo, Version) read from the ledger
    di,             \* index into docs_to_process
    existing,       \* process_document: existing_chunks
    saved_files,    \* process_document: saved_files
    fi,             \* index into saved_files
    nchunks,        \* len(text_chunks) of the file in progress
    idx,            \* ordinal of the next chunk to add
    outcome,        \* how the process_document call in progress has ended
    want,           \* ordinals the process_document call set out to add
    plog,           \* documents process_tenant has passed to process_document
    ptlog,          \* tenants the process run is done with
    sinceIndex,     \* [tenant -> ledger "same"/"changed" since it was last indexed]
    rerun,          \* the tenant in progress was indexed before, ledger unchanged
    ledgerSyncs,    \* number of gather runs seen by the index phase
    indexRuns,      \* number of process runs started
    vectordb,       \* tenants whose <tenant>_chroma.db exists
    output,         \* positions in saved_files of the files present in "output"
    stale,          \* "output" holds a file written for an earlier document
    failed,         \* [tenant -> documents whose last process_document call failed]
    text,           \* chunk_text: text
    chunk_size_arg, \* chunk_text: the argument chunk_size
    overlap_arg,    \* chunk_text: the argument overlap
    windows,        \* chunk_text: the list returned
    response_json   \* get_all_categories: response_json['TreeItems']

gatherLocals == <<upstream, updates, gi, category_list, ci, qblocks, served,
                  all_rows, has_remaining, rows, doc_count, syncRuns, glog, tlog,
                  prevClean, tree_status, returned>>
processVars == <<index, p_i, docs_to_process, di, existing, saved_files, fi,
                 nchunks, idx, outcome, want, plog, ptlog, sinceIndex, rerun,
                 ledgerSyncs, indexRuns, vectordb, output, stale, failed>>
docVars == <<existing, saved_files, fi, nchunks, idx, outcome, want, output>>
\* The arguments and the result of a function called on its own, and the
\* argument of the program.
callVars == <<max_rows, text, chunk_size_arg, overlap_arg, windows, response_json,
              tenant_name>>
vars == <<pc, gatherLocals, ledger, dbfile, maxSeen, processVars, callVars>>

\* tenant_configs: the one tenant --tenant names, or config['Tenants'].
tenant_configs ==
    IF tenant_name = "" THEN Tenants ELSE <<tenant_name>>

\* ------------------------------------------------------------------ ledger
\* SELECT Version FROM documents WHERE DocNo=? ; fetchone()
SelectVersion(db, doc_no) ==
    IF doc_no \in DOMAIN db THEN db[doc_no] ELSE None

ReplaceDropsOthers(db, doc_no, version) ==
    [d \in {doc_no} |-> version]

\* REPLACE INTO documents (DocNo, Version, Data) VALUES (?, ?, ?)
\* DocNo is the primary key: the row of doc_no is replaced, or inserted.
Replace(db, doc_no, version) ==
    [d \in (DOMAIN db) \cup {doc_no} |-> IF d = doc_no THEN version ELSE db[d]]

NeedsUpsertOnlyNew(result, version) ==
    result = None

\* if result is None or result[0] != version
NeedsUpsert(result, version) ==
    result = None \/ result # version

\* for row in rows: ... ; the state after the first i rows, with the count
\* of REPLACE statements executed.
RECURSIVE ReconcileRows(_, _, _)
ReconcileRows(db, rs, count) ==
    IF rs = <<>> THEN [db |-> db, count |-> count]
    ELSE LET row == Head(rs)
             result == SelectVersion(db, row.DocNo)
         IN IF NeedsUpsert(result, row.VersionNo)
            THEN ReconcileRows(Replace(db, row.DocNo, row.VersionNo), Tail(rs), count + 1)
            ELSE ReconcileRows(db, Tail(rs), count)

ExtendOverwrites(collected, block) ==
    block

\* all_rows.extend(next_response["QueryResult"]["ResultRows"])
Extend(collected, block) ==
    collected \o block

AfterCategoryErrorBreaks(i) ==
    Len(Taxonomy) + 1

\* except Exception: logging.error(...); continue   (category loop)
AfterCategoryError(i) ==
    i + 1

AfterTenantErrorReturns(i) ==
    Len(tenant_configs) + 1

\* except Exception: logging.error(...); continue   (tenant loop)
AfterTenantError(i) ==
    i + 1

SkipCategoryNever(t, c) ==
    FALSE

\* tenant_config.get('categories') and category['ItemNo'] not in tenant_config['categories']
SkipCategory(t, c) ==
    TenantCategories[t] # {} /\ c \notin TenantCategories[t]

\* The categories of the list that the category loop does not skip.
RECURSIVE Wanted(_, _)
Wanted(t, cats) ==
    IF cats = <<>> THEN <<>>
    ELSE IF SkipCategory(t, Head(cats)) THEN Wanted(t, Tail(cats))
         ELSE <<Head(cats)>> \o Wanted(t, Tail(cats))

\* The ways the service pages `content` into at most MaxBlocks blocks; every
\* block but the last is sent with HasRemainingRows true.
RECURSIVE Pagings(_, _)
Pagings(content, n) ==
    IF n = 1 THEN {<<content>>}
    ELSE {<<content>>} \cup
         UNION {{<<SubSeq(content, 1, k)>> \o p :
                    p \in Pagings(SubSeq(content, k + 1, Len(content)), n - 1)} :
                k \in 0..Len(content)}

\* One line of the gather run's log.  In glog: logging.error of a failed
\* fetch (n: rows collected before it failed) or the rows of a category
\* reconciled (n: REPLACE statements).  In tlog: the tenant was skipped
\* ("catfail"), or its summary (n: doc_count; "end_errors" when a category
\* of the tenant failed).
Logged(t, c, kind, n) ==
    [tenant |-> t, category |-> c, kind |-> kind, n |-> n]

ErrorKinds == {"catfail", "qfail", "nextfail", "relfail"}

NoError(log) ==
    \A i \in 1..Len(log) : log[i].kind \notin ErrorKinds

\* The highest version per DocNo among `seen` and the rows rs.
CleanRun(log) ==
    \A i \in 1..Len(log) : log[i].kind = "end"

RECURSIVE SeenAfter(_, _)
SeenAfter(seen, rs) ==
    IF rs = <<>> THEN seen
    ELSE LET row == Head(rs)
         IN SeenAfter([seen EXCEPT ![row.DocNo] =
                          IF row.VersionNo > @ THEN row.VersionNo ELSE @], Tail(rs))

\* What the service can answer to GetCategoriesTree: the HTTP status, and a
\* body that holds the tree ("tree"), a JSON object without 'TreeItems' such
\* as an error document ("object"), or no JSON at all ("text").
TreeResponses ==
    {[status |-> 200, body |-> "tree"],
     [status |-> 500, body |-> "object"],
     [status |-> 500, body |-> "text"]}

\* json.loads(data.decode("utf-8")) returns (it raises on a body that is not JSON)
JsonLoads(body) ==
    body # "text"

\* _get_items_of_type(response_json.get('TreeItems', []), category_list, type=2)
TreeItems(body) ==
    IF body = "tree" THEN Taxonomy ELSE <<>>

RECURSIVE Flatten(_)
Flatten(blocks) ==
    IF blocks = <<>> THEN <<>> ELSE Head(blocks) \o Flatten(Tail(blocks))

\* ---------------------------------------------------------------- initial
\* Nothing has run: no database file, no Chroma store, an empty "output".
InitState ==
    /\ upstream = [t \in TenantNames |-> [c \in Categories |-> <<>>]]
    /\ updates = 0
    /\ ledger = [t \in TenantNames |-> <<>>]
    /\ dbfile = {}
    /\ pc = "idle"
    /\ gi = 1
    /\ category_list = <<>>
    /\ ci = 1
    /\ qblocks = <<>>
    /\ served = <<>>
    /\ all_rows = <<>>
    /\ has_remaining = FALSE
    /\ rows = <<>>
    /\ doc_count = 0
    /\ syncRuns = 0
    /\ glog = <<>>
    /\ tlog = <<>>
    /\ prevClean = FALSE
    /\ maxSeen = [t \in TenantNames |-> [d \in DocNos |-> None]]
    /\ index = [t \in TenantNames |-> {}]
    /\ p_i = 1
    /\ docs_to_process = <<>>
    /\ di = 1
    /\ existing = {}
    /\ saved_files = <<>>
    /\ fi = 1
    /\ nchunks = 0
    /\ idx = 0
    /\ outcome = "none"
    /\ want = {}
    /\ plog = <<>>
    /\ ptlog = <<>>
    /\ sinceIndex = [t \in TenantNames |-> "never"]
    /\ rerun = FALSE
    /\ ledgerSyncs = 0
    /\ indexRuns = 0
    /\ tree_status = None
    /\ returned = [t \in TenantNames |-> <<>>]
    /\ vectordb = {}
    /\ output = {}
    /\ stale = FALSE
    /\ failed = [t \in TenantNames |-> {}]

\* The pipeline calls its functions with their default arguments.
Init ==
    /\ InitState
    /\ max_rows = DEFAULT_MAX_ROWS
    /\ text = <<>>
    /\ chunk_size_arg = DEFAULT_CHUNK_SIZE
    /\ overlap_arg = DEFAULT_OVERLAP
    /\ windows = <<>>
    /\ response_json = <<>>
    /\ tenant_name = ""

\* ------------------------------------------------------------- environment
\* The upstream service changes the documents of one category.
UpstreamUpdate ==
    /\ pc = "idle"
    /\ updates < MaxUpdates
    /\ \E t \in TenantNames, c \in Categories, content \in UpstreamContents :
          /\ \A i \in 1..Len(content) : content[i].DocNo \in UpstreamDocs[t]
          /\ content # upstream[t][c]
          /\ upstream' = [upstream EXCEPT ![t][c] = content]
    /\ updates' = updates + 1
    /\ prevClean' = FALSE
    /\ UNCHANGED <<processVars, callVars>>
    /\ UNCHANGED <<tlog, ledger, dbfile, pc, gi, category_list, ci, qblocks, served,
                   all_rows, has_remaining, rows, doc_count, syncRuns, glog,
                   maxSeen,
                   tree_status,
                   returned>>

\* ------------------------------------------------------------ gather phase
\* The frame of query_all_category_documents is gone (it returned or raised):
\* its locals, and the query the server held for it, are not read again.
QueryLocalsDropped ==
    /\ qblocks' = <<>>
    /\ served' = <<>>
    /\ all_rows' = <<>>
    /\ has_remaining' = FALSE


\* get_therefore_documents_for_processing(tenant_name=None): loop entry.
GatherStart ==
    /\ pc = "idle"
    /\ syncRuns < MaxSyncRuns
    /\ syncRuns' = syncRuns + 1
    /\ pc' = "g_tenant"
    /\ gi' = 1
    /\ doc_count' = 0
    /\ glog' = <<>>
    /\ tlog' = <<>>
    /\ UNCHANGED <<processVars, callVars>>
    /\ UNCHANGED <<upstream, updates, ledger, dbfile, category_list, ci, qblocks,
                   served, all_rows, has_remaining, rows, prevClean, maxSeen,
                   tree_status,
                   returned>>

\* get_all_categories raises (the request fails, or the body of the answer
\* is not JSON): the tenant is skipped.
GetCategoriesFails ==
    /\ pc = "g_tenant"
    /\ gi <= Len(tenant_configs)
    /\ gi' = AfterTenantError(gi)
    /\ doc_count' = 0
    /\ tlog' = Append(tlog, Logged(tenant_configs[gi], 0, "catfail", 0))
    /\ UNCHANGED <<processVars, callVars>>
    /\ UNCHANGED <<upstream, updates, ledger, dbfile, pc, category_list, ci,
                   qblocks, served, all_rows, has_remaining, rows, syncRuns, glog,
                   prevClean, maxSeen,
                   tree_status,
                   returned>>

\* get_all_categories returns the categories found in the body, whatever the
\* status of the answer; the tenant's database and table are created.
GetCategories ==
    /\ pc = "g_tenant"
    /\ gi <= Len(tenant_configs)
    /\ \E res \in TreeResponses :
          /\ JsonLoads(res.body)
          /\ category_list' = TreeItems(res.body)
          /\ tree_status' = res.status
    /\ dbfile' = dbfile \cup {tenant_configs[gi]}
    /\ doc_count' = 0
    /\ ci' = 1
    /\ pc' = "g_category"
    /\ UNCHANGED <<processVars, callVars>>
    /\ UNCHANGED <<tlog, upstream, updates, ledger, gi, qblocks, served, all_rows,
                   has_remaining, rows, syncRuns, glog, prevClean, maxSeen,
                   returned>>

\* The category is not in the tenant's allow-list.
CategorySkipped ==
    /\ pc = "g_category"
    /\ ci <= Len(category_list)
    /\ SkipCategory(tenant_configs[gi], category_list[ci])
    /\ ci' = ci + 1
    /\ UNCHANGED <<processVars, callVars>>
    /\ UNCHANGED <<tlog, upstream, updates, ledger, dbfile, pc, gi, category_list,
                   qblocks, served, all_rows, has_remaining, rows, doc_count,
                   syncRuns, glog, prevClean, maxSeen,
                   tree_status,
                   returned>>

\* ExecuteAsyncSingleQuery fails: query_all_category_documents raises.
ExecuteQueryFails ==
    /\ pc = "g_category"
    /\ ci <= Len(category_list)
    /\ ~SkipCategory(tenant_configs[gi], category_list[ci])
    /\ ci' = AfterCategoryError(ci)
    /\ glog' = Append(glog, Logged(tenant_configs[gi], category_list[ci], "qfail", 0))
    /\ UNCHANGED <<processVars, callVars>>
    /\ UNCHANGED <<tlog, upstream, updates, ledger, dbfile, pc, gi, category_list,
                   qblocks, served, all_rows, has_remaining, rows, doc_count,
                   syncRuns, prevClean, maxSeen,
                   tree_status,
                   returned>>

\* ExecuteAsyncSingleQuery answers with the first block.
ExecuteQuery ==
    /\ pc = "g_category"
    /\ ci <= Len(category_list)
    /\ ~SkipCategory(tenant_configs[gi], category_list[ci])
    /\ \E p \in Pagings(upstream[tenant_configs[gi]][category_list[ci]], MaxBlocks) :
          /\ all_rows' = Head(p)
          /\ has_remaining' = (Len(p) > 1)
          /\ qblocks' = Tail(p)
          /\ served' = <<<<Head(p), Len(p) > 1>>>>
    /\ pc' = IF has_remaining' THEN "q_next" ELSE "q_release"
    /\ UNCHANGED <<processVars, callVars>>
    /\ UNCHANGED <<tlog, upstream, updates, ledger, dbfile, gi, category_list, ci, rows,
                   doc_count, syncRuns, glog, prevClean, maxSeen,
                   tree_status,
                   returned>>

\* GetNextSingleQueryRows fails: the exception leaves query_all_category_documents.
GetNextRowsFails ==
    /\ pc = "q_next"
    /\ ci' = AfterCategoryError(ci)
    /\ pc' = "g_category"
    /\ QueryLocalsDropped
    /\ glog' = Append(glog, Logged(tenant_configs[gi], category_list[ci], "nextfail",
                                    Len(all_rows)))
    /\ UNCHANGED <<processVars, callVars>>
    /\ UNCHANGED <<tlog, upstream, updates, ledger, dbfile, gi, category_list, rows,
                   doc_count, syncRuns, prevClean, maxSeen,
                   tree_status,
                   returned>>

\* GetNextSingleQueryRows answers with the next block.
GetNextRows ==
    /\ pc = "q_next"
    /\ all_rows' = Extend(all_rows, Head(qblocks))
    /\ has_remaining' = (Len(qblocks) > 1)
    /\ served' = Append(served, <<Head(qblocks), Len(qblocks) > 1>>)
    /\ qblocks' = Tail(qblocks)
    /\ pc' = IF has_remaining' THEN "q_next" ELSE "q_release"
    /\ UNCHANGED <<processVars, callVars>>
    /\ UNCHANGED <<tlog, upstream, updates, ledger, dbfile, gi, category_list, ci, rows,
                   doc_count, syncRuns, glog, prevClean, maxSeen,
                   tree_status,
                   returned>>

\* ReleaseSingleQuery fails: nothing catches it inside query_all_category_documents.
ReleaseQueryFails ==
    /\ pc = "q_release"
    /\ ci' = AfterCategoryError(ci)
    /\ pc' = "g_category"
    /\ QueryLocalsDropped
    /\ glog' = Append(glog, Logged(tenant_configs[gi], category_list[ci], "relfail",
                                    Len(all_rows)))
    /\ UNCHANGED <<processVars, callVars>>
    /\ UNCHANGED <<tlog, upstream, updates, ledger, dbfile, gi, category_list, rows,
                   doc_count, syncRuns, prevClean, maxSeen,
                   tree_status,
                   returned>>

\* ReleaseSingleQuery is answered (the answer is read and dropped, whatever
\* its status): return all_rows.
ReleaseQuery ==
    /\ pc = "q_release"
    /\ rows' = all_rows
    /\ pc' = "g_reconcile"
    /\ UNCHANGED <<processVars, callVars>>
    /\ UNCHANGED <<tlog, upstream, updates, ledger, dbfile, gi, category_list, ci,
                   qblocks, served, all_rows, has_remaining, doc_count, syncRuns,
                   glog, prevClean, maxSeen,
                   tree_status,
                   returned>>

\* for row in rows: SELECT, REPLACE on mismatch; conn.commit()
Reconcile ==
    /\ pc = "g_reconcile"
    /\ LET t == tenant_configs[gi]
           r == ReconcileRows(ledger[t], rows, 0)
       IN /\ ledger' = [ledger EXCEPT ![t] = r.db]
          /\ doc_count' = doc_count + r.count
          /\ glog' = Append(glog, Logged(t, category_list[ci], "reconciled", r.count))
          /\ maxSeen' = [maxSeen EXCEPT ![t] = SeenAfter(maxSeen[t], rows)]
    /\ ci' = ci + 1
    /\ pc' = "g_category"
    /\ rows' = <<>>
    /\ QueryLocalsDropped
    /\ UNCHANGED <<processVars, callVars>>
    /\ UNCHANGED <<tlog, upstream, updates, dbfile, gi, category_list, syncRuns,
                   prevClean,
                   tree_status,
                   returned>>

\* conn.close(); tenant summary; next tenant.
GatherTenantEnd ==
    /\ pc = "g_category"
    /\ ci > Len(category_list)
    /\ gi' = gi + 1
    /\ pc' = "g_tenant"
    /\ category_list' = <<>>
    /\ ci' = 1
    /\ tlog' = Append(tlog, Logged(tenant_configs[gi], 0,
                                    IF NoError(glog) THEN "end" ELSE "end_errors",
                                    doc_count))
    /\ glog' = <<>>
    /\ tree_status' = None
    /\ UNCHANGED <<processVars, callVars>>
    /\ UNCHANGED <<upstream, updates, ledger, dbfile, qblocks, served, all_rows,
                   has_remaining, rows, doc_count, syncRuns, prevClean, maxSeen,
                   returned>>

\* The tenant loop is exhausted: grand summary, return.
GatherEnd ==
    /\ pc = "g_tenant"
    /\ gi > Len(tenant_configs)
    /\ pc' = "idle"
    /\ gi' = 1
    /\ doc_count' = 0
    /\ prevClean' = CleanRun(tlog)
    /\ tlog' = <<>>
    /\ UNCHANGED <<processVars, callVars>>
    /\ UNCHANGED <<upstream, updates, ledger, dbfile, category_list, ci, qblocks,
                   served, all_rows, has_remaining, rows, syncRuns, glog, maxSeen,
                   tree_status,
                   returned>>

\* ----------------------------------------------------------- process phase
\* cursor.execute("SELECT DocNo, Version FROM documents"); fetchall():
\* the rows of the table, by ascending primary key.
RECURSIVE RowsFrom(_, _)
RowsFrom(db, d) ==
    IF d > MaxDocNo THEN <<>>
    ELSE IF d \in DOMAIN db THEN <<<<d, db[d]>>>> \o RowsFrom(db, d + 1)
         ELSE RowsFrom(db, d + 1)

SelectAll(db) ==
    RowsFrom(db, 1)

\* f"{doc_id}_chunk{idx}": one id per document and ordinal.
ChunkId(doc_id, i) ==
    <<doc_id, i>>

\* collection.get(where={"parent_doc": doc_id})
Get(coll, doc_id) ==
    {c \in coll : c.parent_doc = doc_id}

Ids(chunks) ==
    {c.id : c \in chunks}

DeleteKeepsTail(coll, ids) ==
    {c \in coll : c.id \notin ids \/ c.id[2] > 0}

\* collection.delete(ids=existing_chunks["ids"])
Delete(coll, ids) ==
    {c \in coll : c.id \notin ids}

\* collection.add(ids=[id], ..., metadatas=[{"version": version, "parent_doc": doc_id}])
\* of an id the collection does not hold.  The chunk's text and vector play
\* no part in the reconciliation and are left out of the record.
Add(coll, id, version, doc_id) ==
    coll \cup {[id |-> id, version |-> version, parent_doc |-> doc_id]}

AlreadyCurrentNever(stored_version, version) ==
    FALSE

AlreadyCurrentAlways(stored_version, version) ==
    TRUE

\* if stored_version == version: ... return
AlreadyCurrent(stored_version, version) ==
    stored_version = version

AfterDocumentErrorPropagates ==
    "p_abort"

\* except Exception as e: logging.error(...)   (process_document returns)
AfterDocumentError ==
    "pd_return"

Min(a, b) == IF a < b THEN a ELSE b

\* range(0, len(words), chunk_size - overlap), for a positive step
RangeLen(n, step) ==
    (n + step - 1) \div step

\* A text is a sequence of characters: the space, or a character of a word
\* (written as its position in the text, so that no two words are equal).
Space == 0

Texts ==
    UNION {{[i \in 1..n |-> IF i \in sp THEN Space ELSE i] : sp \in SUBSET (1..n)} :
           n \in 0..MaxTextLen}

\* text.split(): the maximal runs of characters that are not whitespace.
RECURSIVE SplitFrom(_, _, _)
SplitFrom(found, word, rest) ==
    IF rest = <<>> THEN (IF word = <<>> THEN found ELSE Append(found, word))
    ELSE IF Head(rest) = Space
         THEN SplitFrom(IF word = <<>> THEN found ELSE Append(found, word), <<>>, Tail(rest))
         ELSE SplitFrom(found, Append(word, Head(rest)), Tail(rest))

Split(t) ==
    SplitFrom(<<>>, <<>>, t)

\* " ".join(words)
RECURSIVE Join(_)
Join(words) ==
    IF words = <<>> THEN <<>>
    ELSE IF Len(words) = 1 THEN Head(words)
         ELSE Head(words) \o <<Space>> \o Join(Tail(words))

chunk_text_no_overlap(words, chunk_size, overlap) ==
    [k \in 1..RangeLen(Len(words), chunk_size) |->
        SubSeq(words, (k - 1) * chunk_size + 1, Min(k * chunk_size, Len(words)))]

\* chunk_text: the windows words[i:i + chunk_size] for i in range(0,
\* len(words), chunk_size - overlap); `words` is text.split().
chunk_text(words, chunk_size, overlap) ==
    [k \in 1..RangeLen(Len(words), chunk_size - overlap) |->
        SubSeq(words, (k - 1) * (chunk_size - overlap) + 1,
               Min((k - 1) * (chunk_size - overlap) + chunk_size, Len(words)))]

\* The word counts of the texts pdfplumber extracts in the model: no text,
\* one window, two windows.
WordCounts == {0, 1, DEFAULT_CHUNK_SIZE - DEFAULT_OVERLAP + 1}

\* utils.extract_text_from_pdf(file_path), split into words.
ExtractedWords(file) ==
    [i \in 1..file.words |-> i]

\* A file written by convert_and_save_document: its extension and its text.
Files == [pdf : {TRUE}, words : WordCounts] \cup [pdf : {FALSE}, words : {0}]

SavedFileLists == SeqsUpTo(Files, MaxFiles) \ {<<>>}

CurrentTenantFirst == Tenants[1]

\* tenant_name = tenant_config.get('Tenant', ...): it names the database
\* file and the Chroma store process_tenant opens.
CurrentTenant == tenant_configs[p_i]

DbExistsAlways(t) ==
    TRUE

\* os.path.exists(db_path)
DbExists(t) ==
    t \in dbfile
CurrentDoc == docs_to_process[di][1]
CurrentVersion == docs_to_process[di][2]

DocLocalsDropped ==
    /\ existing' = {}
    /\ saved_files' = <<>>
    /\ fi' = 1
    /\ nchunks' = 0
    /\ idx' = 0
    /\ outcome' = "none"
    /\ want' = {}
    /\ output' = {}

\* A whole gather run, as the process phase sees it: for tenant t the fetch
\* of one category returned `content` and was reconciled; the fetches that
\* failed, or returned rows already current, changed nothing.
LedgerSync ==
    /\ pc = "idle"
    /\ ledgerSyncs < MaxLedgerSyncs
    /\ ledgerSyncs' = ledgerSyncs + 1
    /\ \E t \in TenantNames, content \in UpstreamContents :
          /\ \A i \in 1..Len(content) : content[i].DocNo \in UpstreamDocs[t]
          /\ LET r == ReconcileRows(ledger[t], content, 0)
             IN /\ ledger' = [ledger EXCEPT ![t] = r.db]
                /\ sinceIndex' = [sinceIndex EXCEPT ![t] =
                       IF r.db # ledger[t] /\ @ = "same" THEN "changed" ELSE @]
                /\ failed' = [failed EXCEPT ![t] =
                       IF r.db # ledger[t] THEN {} ELSE @]
          /\ dbfile' = dbfile \cup {t}
    /\ UNCHANGED <<pc, gatherLocals, callVars, maxSeen, index, p_i, docs_to_process, di,
                   docVars, plog, ptlog, rerun, indexRuns,
                   vectordb, stale>>

\* process(tenant_name=None): loop entry.
ProcessStart ==
    /\ pc = "idle"
    /\ indexRuns < MaxIndexRuns
    /\ indexRuns' = indexRuns + 1
    /\ pc' = "p_tenant"
    /\ p_i' = 1
    /\ ptlog' = <<>>
    /\ UNCHANGED <<gatherLocals, callVars, ledger, dbfile, maxSeen, index, docs_to_process,
                   di, docVars, plog, sinceIndex, rerun, ledgerSyncs,
                   vectordb, stale, failed>>

\* process_tenant: the tenant's database file does not exist; return.
ProcessTenantNoDb ==
    /\ pc = "p_tenant"
    /\ p_i <= Len(tenant_configs)
    /\ ~DbExists(CurrentTenant)
    /\ ptlog' = Append(ptlog, <<CurrentTenant, "nodb">>)
    /\ p_i' = p_i + 1
    /\ UNCHANGED <<pc, gatherLocals, callVars, ledger, dbfile, maxSeen, index,
                   docs_to_process, di, docVars, plog, sinceIndex, rerun,
                   ledgerSyncs, indexRuns,
                   vectordb, stale, failed>>

\* process_tenant: read the ledger; the Chroma store is created if it is
\* missing and the collection opened.
ProcessTenantOpen ==
    /\ pc = "p_tenant"
    /\ p_i <= Len(tenant_configs)
    /\ DbExists(CurrentTenant)
    /\ docs_to_process' = SelectAll(ledger[CurrentTenant])
    /\ di' = 1
    /\ plog' = <<>>
    /\ rerun' = (sinceIndex[CurrentTenant] = "same")
    /\ sinceIndex' = [sinceIndex EXCEPT ![CurrentTenant] = "same"]
    /\ pc' = "p_doc"
    /\ vectordb' = vectordb \cup {CurrentTenant}
    /\ UNCHANGED <<gatherLocals, callVars, ledger, dbfile, maxSeen, index, p_i, docVars,
                   ptlog, ledgerSyncs, indexRuns,
                   stale, failed>>

\* Shared frame of the steps inside process_document.
DocFrame ==
    UNCHANGED <<gatherLocals, callVars, ledger, dbfile, maxSeen, p_i, docs_to_process, di,
                plog, ptlog, sinceIndex, rerun, ledgerSyncs, indexRuns,
                vectordb, stale, failed>>

\* process_document: existing_chunks = collection.get(where={"parent_doc": doc_id})
GetExisting ==
    /\ pc = "p_doc"
    /\ di <= Len(docs_to_process)
    /\ existing' = Get(index[CurrentTenant], CurrentDoc)
    /\ pc' = "pd_check"
    /\ UNCHANGED <<index, saved_files, fi, nchunks, idx, outcome, want,
                   output>>
    /\ DocFrame

\* The stored version (of the first chunk returned) is the ledger's: return.
SkipCurrent ==
    /\ pc = "pd_check"
    /\ \E first \in existing : AlreadyCurrent(first.version, CurrentVersion)
    /\ outcome' = "skipped"
    /\ pc' = "pd_return"
    /\ UNCHANGED <<index, existing, saved_files, fi, nchunks, idx, want,
                   output>>
    /\ DocFrame

\* The stored version differs: delete every chunk that was found.
DeleteOld ==
    /\ pc = "pd_check"
    /\ \E first \in existing : ~AlreadyCurrent(first.version, CurrentVersion)
    /\ index' = [index EXCEPT ![CurrentTenant] = Delete(@, Ids(existing))]
    /\ pc' = "pd_convert"
    /\ UNCHANGED <<existing, saved_files, fi, nchunks, idx, outcome, want,
                   output>>
    /\ DocFrame

\* No chunk was found for the document.
NoExisting ==
    /\ pc = "pd_check"
    /\ existing = {}
    /\ pc' = "pd_convert"
    /\ UNCHANGED <<index, existing, saved_files, fi, nchunks, idx, outcome, want,
                   output>>
    /\ DocFrame

\* convert_and_save_document returned None (it swallowed an exception) or an
\* empty list: "No valid files"; return.
ConvertNothing ==
    /\ pc = "pd_convert"
    /\ outcome' = "nofiles"
    /\ pc' = "pd_return"
    /\ UNCHANGED <<index, existing, saved_files, fi, nchunks, idx, want,
                   output>>
    /\ DocFrame

\* convert_and_save_document returned the files it wrote.
Convert ==
    /\ pc = "pd_convert"
    /\ \E files \in SavedFileLists : saved_files' = files
    /\ fi' = 1
    /\ pc' = "pd_file"
    /\ output' = 1..Len(saved_files')
    /\ UNCHANGED <<index, existing, nchunks, idx, outcome, want>>
    /\ DocFrame

\* if not file_path.lower().endswith('.pdf'): continue
FileNotPdf ==
    /\ pc = "pd_file"
    /\ fi <= Len(saved_files)
    /\ ~saved_files[fi].pdf
    /\ fi' = fi + 1
    /\ UNCHANGED <<pc, index, existing, saved_files, nchunks, idx, outcome, want,
                   output>>
    /\ DocFrame

\* extract_text_from_pdf or _create_embeddings_batch raises.
ExtractOrEmbedFails ==
    /\ pc = "pd_file"
    /\ fi <= Len(saved_files)
    /\ saved_files[fi].pdf
    /\ outcome' = "failed"
    /\ pc' = AfterDocumentError
    /\ UNCHANGED <<index, existing, saved_files, fi, nchunks, idx, want,
                   output>>
    /\ DocFrame

\* if not text_chunks: continue
NoText ==
    /\ pc = "pd_file"
    /\ fi <= Len(saved_files)
    /\ saved_files[fi].pdf
    /\ chunk_text(ExtractedWords(saved_files[fi]), DEFAULT_CHUNK_SIZE, DEFAULT_OVERLAP) = <<>>
    /\ fi' = fi + 1
    /\ UNCHANGED <<pc, index, existing, saved_files, nchunks, idx, outcome, want,
                   output>>
    /\ DocFrame

\* The text was extracted, chunked and embedded in one batch.
Embedded ==
    /\ pc = "pd_file"
    /\ fi <= Len(saved_files)
    /\ saved_files[fi].pdf
    /\ LET text_chunks == chunk_text(ExtractedWords(saved_files[fi]),
                                     DEFAULT_CHUNK_SIZE, DEFAULT_OVERLAP)
       IN /\ text_chunks # <<>>
          /\ nchunks' = Len(text_chunks)
          /\ want' = want \cup (0..(Len(text_chunks) - 1))
    /\ idx' = 0
    /\ pc' = "pd_insert"
    /\ UNCHANGED <<index, existing, saved_files, fi, outcome,
                   output>>
    /\ DocFrame

\* collection.add of the chunk with ordinal idx, an id the collection lacks.
AddChunk ==
    /\ pc = "pd_insert"
    /\ idx < nchunks
    /\ ChunkId(CurrentDoc, idx) \notin Ids(index[CurrentTenant])
    /\ index' = [index EXCEPT ![CurrentTenant] =
                    Add(@, ChunkId(CurrentDoc, idx), CurrentVersion, CurrentDoc)]
    /\ idx' = idx + 1
    /\ UNCHANGED <<pc, existing, saved_files, fi, nchunks, outcome, want,
                   output>>
    /\ DocFrame

\* collection.add of an id the collection holds (an earlier file of the same
\* call added it) and Chroma drops the record with a warning.
AddDuplicateIgnored ==
    /\ pc = "pd_insert"
    /\ idx < nchunks
    /\ ChunkId(CurrentDoc, idx) \in Ids(index[CurrentTenant])
    /\ idx' = idx + 1
    /\ UNCHANGED <<pc, index, existing, saved_files, fi, nchunks, outcome, want,
                   output>>
    /\ DocFrame

\* collection.add raises (storage error, or a duplicate id rejected).
AddFails ==
    /\ pc = "pd_insert"
    /\ idx < nchunks
    /\ outcome' = "failed"
    /\ pc' = AfterDocumentError
    /\ UNCHANGED <<index, existing, saved_files, fi, nchunks, idx, want,
                   output>>
    /\ DocFrame

\* Every chunk of the file was added: os.remove(file_path); next file.  No
\* other step of process_document removes a file.
FileDone ==
    /\ pc = "pd_insert"
    /\ idx = nchunks
    /\ fi' = fi + 1
    /\ pc' = "pd_file"
    /\ output' = output \ {fi}
    /\ UNCHANGED <<index, existing, saved_files, nchunks, idx, outcome, want>>
    /\ DocFrame

\* The loop over saved_files is exhausted: process_document returns.
FilesDone ==
    /\ pc = "pd_file"
    /\ fi > Len(saved_files)
    /\ outcome' = "done"
    /\ pc' = "pd_return"
    /\ UNCHANGED <<index, existing, saved_files, fi, nchunks, idx, want,
                   output>>
    /\ DocFrame

\* process_tenant: process_document returned; doc_count += 1; next document.
\* The files the call left in "output" stay there.
DocumentDone ==
    /\ pc = "pd_return"
    /\ plog' = Append(plog, <<CurrentDoc, outcome>>)
    /\ di' = di + 1
    /\ pc' = "p_doc"
    /\ DocLocalsDropped
    /\ stale' = (stale \/ output # {})
    /\ failed' = [failed EXCEPT ![CurrentTenant] =
                     IF outcome = "failed" THEN @ \cup {CurrentDoc}
                     ELSE IF outcome = "skipped" THEN @
                     ELSE @ \ {CurrentDoc}]
    /\ UNCHANGED <<gatherLocals, callVars, ledger, dbfile, maxSeen, index, p_i,
                   docs_to_process, ptlog, sinceIndex, rerun, ledgerSyncs,
                   indexRuns, vectordb>>

\* process_tenant: the loop is exhausted; summary; return to process().
ProcessTenantEnd ==
    /\ pc = "p_doc"
    /\ di > Len(docs_to_process)
    /\ ptlog' = Append(ptlog, <<CurrentTenant, "end">>)
    /\ p_i' = p_i + 1
    /\ pc' = "p_tenant"
    /\ docs_to_process' = <<>>
    /\ di' = 1
    /\ plog' = <<>>
    /\ rerun' = FALSE
    /\ UNCHANGED <<gatherLocals, callVars, ledger, dbfile, maxSeen, index, docVars,
                   sinceIndex, ledgerSyncs, indexRuns,
                   vectordb, stale, failed>>

\* process(): the tenant loop is exhausted.
ProcessEnd ==
    /\ pc = "p_tenant"
    /\ p_i > Len(tenant_configs)
    /\ pc' = "idle"
    /\ p_i' = 1
    /\ ptlog' = <<>>
    /\ UNCHANGED <<gatherLocals, callVars, ledger, dbfile, maxSeen, index, docs_to_process,
                   di, docVars, plog, sinceIndex, rerun, ledgerSyncs, indexRuns,
                   vectordb, stale, failed>>

\* ------------------------------------------------- functions on their own
\* The blocks and the answers of a service that does not honour the MaxRows
\* of the query: any rows, in any number of blocks.
ServerBlocks == SeqsUpTo({[DocNo |-> 1, VersionNo |-> 1]}, MaxCatRows)
ServerPlans == SeqsUpTo(ServerBlocks, MaxBlocks) \ {<<>>}

\* query_all_category_documents is called with max_rows.
InitQuery ==
    /\ InitState
    /\ max_rows \in 1..MaxRowsArg
    /\ text = <<>>
    /\ chunk_size_arg = DEFAULT_CHUNK_SIZE
    /\ overlap_arg = DEFAULT_OVERLAP
    /\ windows = <<>>
    /\ response_json = <<>>
    /\ tenant_name = ""

\* "MaxRows": max_rows goes into the payload of ExecuteAsyncSingleQuery; the
\* function does not read max_rows again.  The service answers the first
\* block.
ExecuteQueryMaxRows ==
    /\ pc = "idle"
    /\ \E p \in ServerPlans :
          /\ all_rows' = Head(p)
          /\ has_remaining' = (Len(p) > 1)
          /\ qblocks' = Tail(p)
          /\ served' = <<<<Head(p), Len(p) > 1>>>>
    /\ pc' = IF has_remaining' THEN "q_next" ELSE "q_release"
    /\ UNCHANGED <<processVars, callVars>>
    /\ UNCHANGED <<tlog, upstream, updates, ledger, dbfile, gi, category_list, ci, rows,
                   doc_count, syncRuns, glog, prevClean, maxSeen, tree_status,
                   returned>>

NextQuery ==
    \/ ExecuteQueryMaxRows
    \/ GetNextRows
    \/ ReleaseQuery

SpecQuery == InitQuery /\ [][NextQuery]_vars

\* chunk_text is called with a text, a chunk size and a smaller overlap.
InitChunk ==
    /\ InitState
    /\ max_rows = DEFAULT_MAX_ROWS
    /\ text \in Texts
    /\ chunk_size_arg \in 1..MaxChunkSize
    /\ overlap_arg \in 0..(chunk_size_arg - 1)
    /\ windows = <<>>
    /\ response_json = <<>>
    /\ tenant_name = ""

\* return [" ".join(words[i:i + chunk_size]) for i in range(...)]
ChunkTextCall ==
    /\ pc = "idle"
    /\ LET w == chunk_text(Split(text), chunk_size_arg, overlap_arg)
       IN windows' = [k \in 1..Len(w) |-> Join(w[k])]
    /\ pc' = "ct_return"
    /\ UNCHANGED <<gatherLocals, ledger, dbfile, maxSeen, processVars, max_rows,
                   text, chunk_size_arg, overlap_arg, response_json, tenant_name>>

NextChunk ==
    \/ ChunkTextCall

SpecChunk == InitChunk /\ [][NextChunk]_vars

\* The ItemType of a category is 2; 1 stands for every other type.
ItemTypes == {1, 2}

\* The trees GetCategoriesTree can answer with.  A node is a JSON object
\* with an ItemType, an ItemNo (written as the node's place in the tree, so
\* that no two nodes are equal) and, in `lists`, the values of its keys that
\* are lists, in the order of the keys; `at` is the place of the node.
RECURSIVE TreeNodes(_, _)
RECURSIVE TreeNodeSeqs(_, _, _)
RECURSIVE TreeKeySeqs(_, _, _)
TreeLists(at, depth) ==
    UNION {TreeNodeSeqs(at, depth, n) : n \in 0..MaxTreeItems}

TreeNodeSeqs(at, depth, n) ==
    IF n = 0 THEN {<<>>}
    ELSE {Append(nodes, node) : nodes \in TreeNodeSeqs(at, depth, n - 1),
                                node \in TreeNodes(Append(at, n), depth)}

TreeKeySeqs(at, depth, n) ==
    IF n = 0 THEN {<<>>}
    ELSE {Append(lists, list) : lists \in TreeKeySeqs(at, depth, n - 1),
                                list \in TreeLists(Append(at, n), depth)}

TreeNodes(at, depth) ==
    {[ItemType |-> type, ItemNo |-> at, lists |-> lists] :
        type \in ItemTypes,
        lists \in IF depth = 1 THEN {<<>>}
                  ELSE UNION {TreeKeySeqs(at, depth - 1, n) : n \in 0..MaxTreeKeys}}

Trees == TreeLists(<<>>, MaxTreeDepth)

RECURSIVE get_items_of_type(_, _, _)
RECURSIVE get_items_of_list(_, _, _)
RECURSIVE get_items_of_keys(_, _, _)
\* _get_items_of_type, node a list: for item in node: _get_items_of_type(item, ...)
get_items_of_list(node, results, type) ==
    IF node = <<>> THEN results
    ELSE get_items_of_list(Tail(node), get_items_of_type(Head(node), results, type), type)

\* for key in node: if isinstance(node[key], list): for item in node[key]: ...
get_items_of_keys(lists, results, type) ==
    IF lists = <<>> THEN results
    ELSE get_items_of_keys(Tail(lists), get_items_of_list(Head(lists), results, type), type)

get_items_of_type_children_first(node, results, type) ==
    LET below == get_items_of_keys(node.lists, results, type)
    IN IF node.ItemType = type THEN Append(below, [ItemNo |-> node.ItemNo]) ELSE below

\* _get_items_of_type, node a dict: append the node if its ItemType is the
\* type asked for ('Name' is left out of the entry), then go through its keys.
get_items_of_type(node, results, type) ==
    get_items_of_keys(node.lists,
                      IF node.ItemType = type
                      THEN Append(results, [ItemNo |-> node.ItemNo])
                      ELSE results,
                      type)

\* get_all_categories: _get_items_of_type(response_json.get('TreeItems', []), [], type=2)
get_all_categories(tree_items) ==
    get_items_of_list(tree_items, <<>>, 2)

\* get_all_categories is called and the service answers with a tree.
InitTree ==
    /\ InitState
    /\ max_rows = DEFAULT_MAX_ROWS
    /\ text = <<>>
    /\ chunk_size_arg = DEFAULT_CHUNK_SIZE
    /\ overlap_arg = DEFAULT_OVERLAP
    /\ windows = <<>>
    /\ response_json \in Trees
    /\ tenant_name = ""

GetAllCategoriesCall ==
    /\ pc = "idle"
    /\ category_list' = get_all_categories(response_json)
    /\ pc' = "gc_return"
    /\ UNCHANGED <<processVars, callVars>>
    /\ UNCHANGED <<tlog, upstream, updates, ledger, dbfile, gi, ci, qblocks, served,
                   all_rows, has_remaining, rows, doc_count, syncRuns, glog,
                   prevClean, maxSeen, tree_status,
                   returned>>

NextTree ==
    \/ GetAllCategoriesCall

SpecTree == InitTree /\ [][NextTree]_vars

\* ------------------------------------------------------------ run_pipeline
\* What the service holds for a tenant when the gather run queries it.
TenantContents(t) ==
    {u \in [Categories -> UpstreamContents] :
        \A c \in Categories : \A i \in 1..Len(u[c]) : u[c][i].DocNo \in UpstreamDocs[t]}

\* The category loop of the gather run, in one step: the categories of
\* `cats` in `fetched` are fetched from the contents u and their rows
\* reconciled, the fetch of the others fails.
RECURSIVE ReconcileCategories(_, _, _, _, _)
ReconcileCategories(db, u, cats, fetched, count) ==
    IF cats = <<>> THEN [db |-> db, count |-> count]
    ELSE IF Head(cats) \in fetched
         THEN LET r == ReconcileRows(db, u[Head(cats)], count)
              IN ReconcileCategories(r.db, u, Tail(cats), fetched, r.count)
         ELSE ReconcileCategories(db, u, Tail(cats), fetched, count)

\* The versions the contents u hold for document d in the categories cs.
VersionsOf(u, cs, d) ==
    UNION {{u[c][i].VersionNo : i \in {k \in 1..Len(u[c]) : u[c][k].DocNo = d}} : c \in cs}

\* The documents the categories cs return with one version, with that version.
SingleVersions(u, cs) ==
    [d \in {e \in DocNos : Cardinality(VersionsOf(u, cs, e)) = 1} |->
        CHOOSE v \in VersionsOf(u, cs, d) : TRUE]

\* The program is started with --tenant naming a tenant of the configuration:
\* run_pipeline hands tenant_name to both phases.
InitPipeline ==
    /\ InitState
    /\ max_rows = DEFAULT_MAX_ROWS
    /\ text = <<>>
    /\ chunk_size_arg = DEFAULT_CHUNK_SIZE
    /\ overlap_arg = DEFAULT_OVERLAP
    /\ windows = <<>>
    /\ response_json = <<>>
    /\ tenant_name \in TenantNames

\* run_pipeline: clear_output_dir("output"), then the gather phase is called.
RunPipelineStart ==
    /\ pc = "idle"
    /\ syncRuns < MaxSyncRuns
    /\ syncRuns' = syncRuns + 1
    /\ stale' = FALSE
    /\ pc' = "g_tenant"
    /\ gi' = 1
    /\ tlog' = <<>>
    /\ UNCHANGED callVars
    /\ UNCHANGED <<upstream, updates, ledger, dbfile, category_list, ci, qblocks,
                   served, all_rows, has_remaining, rows, doc_count, glog, prevClean,
                   maxSeen, tree_status, returned>>
    /\ UNCHANGED <<index, p_i, docs_to_process, di, docVars, plog, ptlog,
                   sinceIndex, rerun, ledgerSyncs, indexRuns, vectordb, failed>>

\* The gather run's pass over one tenant, in one step.  The tree fetch
\* raises and the tenant is skipped; or it is answered, the database is
\* created, and each category the allow-list admits is fetched and
\* reconciled or its fetch fails.  The log entry is "end" when the tree was
\* answered with status 200 and no fetch failed; `returned` then holds what
\* the fetches returned.
PipelineGatherTenant ==
    /\ pc = "g_tenant"
    /\ gi <= Len(tenant_configs)
    /\ LET t == tenant_configs[gi]
       IN \/ /\ tlog' = Append(tlog, Logged(t, 0, "catfail", 0))
             /\ UNCHANGED <<ledger, dbfile, sinceIndex, failed, returned>>
          \/ \E res \in TreeResponses, u \in TenantContents(t) :
                /\ JsonLoads(res.body)
                /\ LET cats == Wanted(t, TreeItems(res.body))
                       admitted == {cats[i] : i \in 1..Len(cats)}
                   IN \E fetched \in SUBSET admitted :
                         LET r == ReconcileCategories(ledger[t], u, cats, fetched, 0)
                             clean == res.status = 200 /\ fetched = admitted
                         IN /\ ledger' = [ledger EXCEPT ![t] = r.db]
                            /\ sinceIndex' = [sinceIndex EXCEPT ![t] =
                                   IF r.db # ledger[t] /\ @ = "same" THEN "changed" ELSE @]
                            /\ failed' = [failed EXCEPT ![t] =
                                   IF r.db # ledger[t] THEN {} ELSE @]
                            /\ returned' = [returned EXCEPT ![t] =
                                   IF clean THEN SingleVersions(u, admitted) ELSE <<>>]
                            /\ tlog' = Append(tlog, Logged(t, 0,
                                   IF clean THEN "end" ELSE "end_errors", 0))
                /\ dbfile' = dbfile \cup {t}
    /\ gi' = gi + 1
    /\ UNCHANGED callVars
    /\ UNCHANGED <<pc, upstream, updates, category_list, ci, qblocks, served,
                   all_rows, has_remaining, rows, doc_count, syncRuns, glog,
                   prevClean, maxSeen, tree_status>>
    /\ UNCHANGED <<index, p_i, docs_to_process, di, docVars, plog, ptlog, rerun,
                   ledgerSyncs, indexRuns, vectordb, stale>>

\* The gather phase returns; run_pipeline calls the process phase.
PipelineProcessStart ==
    /\ pc = "g_tenant"
    /\ gi > Len(tenant_configs)
    /\ gi' = 1
    /\ indexRuns' = indexRuns + 1
    /\ pc' = "p_tenant"
    /\ p_i' = 1
    /\ ptlog' = <<>>
    /\ tlog' = <<>>
    /\ UNCHANGED callVars
    /\ UNCHANGED <<upstream, updates, ledger, dbfile, category_list, ci,
                   qblocks, served, all_rows, has_remaining, rows, doc_count,
                   syncRuns, glog, prevClean, maxSeen, tree_status, returned>>
    /\ UNCHANGED <<index, docs_to_process, di, docVars, plog, sinceIndex, rerun,
                   ledgerSyncs, vectordb, stale, failed>>

\* The process phase returns; run_pipeline logs the totals and returns.
PipelineEnd ==
    /\ pc = "p_tenant"
    /\ p_i > Len(tenant_configs)
    /\ pc' = "idle"
    /\ p_i' = 1
    /\ ptlog' = <<>>
    /\ returned' = [t \in TenantNames |-> <<>>]
    /\ UNCHANGED callVars
    /\ UNCHANGED <<tlog, upstream, updates, ledger, dbfile, gi, category_list, ci,
                   qblocks, served, all_rows, has_remaining, rows, doc_count,
                   syncRuns, glog, prevClean, maxSeen, tree_status>>
    /\ UNCHANGED <<index, docs_to_process, di, docVars, plog, sinceIndex, rerun,
                   ledgerSyncs, indexRuns, vectordb, stale, failed>>

NextPipeline ==
    \/ RunPipelineStart
    \/ PipelineGatherTenant
    \/ PipelineProcessStart
    \/ ProcessTenantNoDb
    \/ ProcessTenantOpen
    \/ GetExisting
    \/ SkipCurrent
    \/ DeleteOld
    \/ NoExisting
    \/ ConvertNothing
    \/ Convert
    \/ FileNotPdf
    \/ ExtractOrEmbedFails
    \/ NoText
    \/ Embedded
    \/ AddChunk
    \/ AddDuplicateIgnored
    \/ AddFails
    \/ FileDone
    \/ FilesDone
    \/ DocumentDone
    \/ ProcessTenantEnd
    \/ PipelineEnd

SpecPipeline == InitPipeline /\ [][NextPipeline]_vars

Next ==
    \/ LedgerSync
    \/ ProcessStart
    \/ ProcessTenantNoDb
    \/ ProcessTenantOpen
    \/ GetExisting
    \/ SkipCurrent
    \/ DeleteOld
    \/ NoExisting
    \/ ConvertNothing
    \/ Convert
    \/ FileNotPdf
    \/ ExtractOrEmbedFails
    \/ NoText
    \/ Embedded
    \/ AddChunk
    \/ AddDuplicateIgnored
    \/ AddFails
    \/ FileDone
    \/ FilesDone
    \/ DocumentDone
    \/ ProcessTenantEnd
    \/ ProcessEnd

Spec == Init /\ [][Next]_vars

NextSync ==
    \/ UpstreamUpdate
    \/ GatherStart
    \/ GetCategoriesFails
    \/ GetCategories
    \/ CategorySkipped
    \/ ExecuteQueryFails
    \/ ExecuteQuery
    \/ GetNextRowsFails
    \/ GetNextRows
    \/ ReleaseQueryFails
    \/ ReleaseQuery
    \/ Reconcile
    \/ GatherTenantEnd
    \/ GatherEnd

SpecSync == Init /\ [][NextSync]_vars

\* ------------------------------------------------------- gather properties
GatherRunEnd == pc = "g_tenant" /\ gi > Len(tenant_configs)
GatherTenantDone == pc = "g_category" /\ ci > Len(category_list)

\* The step appended an entry of this kind to the log.
LoggedNow(old, new, kind) ==
    /\ Len(new) = Len(old) + 1
    /\ new[Len(new)].kind = kind

RECURSIVE SumN(_)
SumN(log) ==
    IF log = <<>> THEN 0 ELSE Head(log).n + SumN(Tail(log))

\* C4: a gather run that meets no error, right after a gather run that met
\* no error and with the upstream rows unchanged in between, executes no
\* REPLACE: every tenant's processed count is 0.
C4_SecondSyncUpsertsNothing ==
    (GatherRunEnd /\ prevClean /\ CleanRun(tlog))
        => \A i \in 1..Len(tlog) : tlog[i].n = 0

\* C5: after any sequence of gather runs the ledger's version of a document
\* is the highest version the runs have reconciled for it.
C5_LedgerHoldsMaxVersion ==
    pc = "idle" =>
        \A t \in TenantNames : \A d \in DOMAIN ledger[t] :
            ledger[t][d] = maxSeen[t][d]

\* C7: query_all_category_documents returns the rows of the blocks it was
\* served, concatenated in arrival order; every block but the last was sent
\* with HasRemainingRows true and the last with false, so nothing was
\* requested after a false flag and nothing the query holds was left out.
C7_PaginationComplete ==
    pc = "g_reconcile" =>
        /\ rows = Flatten([i \in 1..Len(served) |-> served[i][1]])
        /\ \A i \in 1..Len(served) : served[i][2] = (i < Len(served))
        /\ rows = upstream[tenant_configs[gi]][category_list[ci]]

C7_Witness ==
    /\ pc = "g_reconcile"
    /\ Len(served) = 3
    /\ served[1][1] # <<>>
    /\ served[3][1] # <<>>
    /\ served[1][1] # served[3][1]

C8_NextFailStep ==
    LoggedNow(glog, glog', "nextfail") =>
        /\ ledger' = ledger
        /\ doc_count' = doc_count
        /\ tlog' = tlog
        /\ gi' = gi
        /\ category_list' = category_list
        /\ pc' = "g_category"
        /\ ci' = ci + 1

C8_AllCategoriesFetched ==
    GatherTenantDone =>
        [i \in 1..Len(glog) |-> glog[i].category] = Wanted(tenant_configs[gi], category_list)

\* C8: a failed continuation request reconciles none of the rows collected
\* for the category, counts as an error of that category alone, and the loop
\* goes on with the next category: when the tenant is done, every category
\* of the list that the allow-list admits has been fetched, once, in order.
C8_PaginationFailureIsPerCategory ==
    [][C8_NextFailStep]_vars /\ []C8_AllCategoriesFetched

C8_Witness ==
    /\ GatherTenantDone
    /\ Len(glog) = 2
    /\ glog[1].kind = "nextfail" /\ glog[1].n > 0
    /\ glog[2].kind = "reconciled" /\ glog[2].n > 0

C9_CatFailStep ==
    LoggedNow(tlog, tlog', "catfail") =>
        /\ ledger' = ledger
        /\ dbfile' = dbfile
        /\ pc' = "g_tenant"
        /\ gi' = gi + 1

C9_EveryTenantVisited ==
    /\ GatherRunEnd => [i \in 1..Len(tlog) |-> tlog[i].tenant] = Tenants
    /\ GatherTenantDone => doc_count = SumN(SelectSeq(glog, LAMBDA e : e.kind = "reconciled"))

\* A step of the gather run writes the ledger of the tenant in progress only.
C9_OwnLedgerOnly ==
    \A t \in TenantNames : ledger'[t] # ledger[t] => (gi <= Len(tenant_configs) /\ t = tenant_configs[gi])

\* C9: a failed category-tree fetch leaves the tenant's ledger and database
\* file alone and the run goes on with the next tenant: at the end of the
\* run every configured tenant has been visited, in order, and the count a
\* tenant reports is the number of REPLACE statements of its own categories,
\* on a ledger no other tenant's steps write.
C9_TenantFailureIsIsolated ==
    [][C9_CatFailStep /\ C9_OwnLedgerOnly]_vars /\ []C9_EveryTenantVisited

C9_Witness ==
    /\ GatherRunEnd
    /\ tlog[1].kind = "catfail"
    /\ tlog[2].kind = "end" /\ tlog[2].n > 0

\* The category of the list the gather loop is at is in the tenant's
\* allow-list, when the tenant has one.
C11_CurrentAllowed ==
    TenantCategories[tenant_configs[gi]] # {} =>
        category_list[ci] \in TenantCategories[tenant_configs[gi]]

C11_QueriedAllowed ==
    /\ pc \in {"q_next", "q_release", "g_reconcile"} => C11_CurrentAllowed
    /\ (pc \in {"g_category", "q_next", "q_release", "g_reconcile"}
            /\ TenantCategories[tenant_configs[gi]] # {}) =>
          \A i \in 1..Len(glog) : glog[i].category \in TenantCategories[tenant_configs[gi]]

C11_UpsertStep ==
    ledger' # ledger =>
        /\ C11_CurrentAllowed
        /\ rows = upstream[tenant_configs[gi]][category_list[ci]]

\* C11: for a tenant with an allow-list, every query that is opened, every
\* fetch the run logs and every step that writes the ledger is for a
\* category of the allow-list, and the rows written are that category's.
C11_OnlyAllowedCategories ==
    [][C11_UpsertStep]_vars /\ []C11_QueriedAllowed

\* Tenant B (allow-list {2}) is done: category 1 holds rows upstream and was
\* not fetched, category 2 was fetched and reconciled.
C11_Witness ==
    /\ GatherTenantDone
    /\ TenantCategories[tenant_configs[gi]] = {2}
    /\ upstream[tenant_configs[gi]][1] # <<>>
    /\ Len(glog) = 1
    /\ glog[1].kind = "reconciled" /\ glog[1].category = 2 /\ glog[1].n > 0

\* C12: once every block of a category was fetched, the release request
\* cannot keep the rows collected from being returned: the step that follows
\* the last block hands all_rows to the reconciliation.
C12_ReleaseFailureNotFatal ==
    [][(pc = "q_release" /\ all_rows # <<>>) =>
           (pc' = "g_reconcile" /\ rows' = all_rows)]_vars

\* C14: the gather run goes on to the categories of a tenant only after a
\* tree fetch that was answered with a success status.
C14_ErrorStatusSkipsTenant ==
    pc \in {"g_category", "q_next", "q_release", "g_reconcile"} => tree_status = 200

\* The document ids the service returns for the tenant, in any category.
C22_Returned(t) ==
    UNION {{upstream[t][c][i].DocNo : i \in 1..Len(upstream[t][c])} : c \in Categories}

\* C22: no step of a gather run removes a row of a ledger: every DocNo a
\* tenant's ledger holds before the step it holds after it.  (The table is
\* keyed by DocNo, so a ledger holds one row per document id.)
C22_SyncKeepsRows ==
    [][\A t \in TenantNames : DOMAIN ledger[t] \subseteq DOMAIN ledger'[t]]_vars

\* The second gather run is over, tenant A's categories were all fetched
\* without error, and A's ledger holds a document the service returns no
\* more.
C22_Witness ==
    /\ GatherRunEnd
    /\ syncRuns = 2
    /\ tlog[1].kind = "end"
    /\ DOMAIN ledger["A"] \ C22_Returned("A") # {}

\* C13: whatever the service answers, the rows query_all_category_documents
\* has accumulated never exceed max_rows, and it requests a further block
\* only while it holds fewer than max_rows rows.
C13_AtMostMaxRows ==
    /\ Len(all_rows) <= max_rows
    /\ pc = "q_next" => Len(all_rows) < max_rows

\* ---------------------------------------------------------- tree properties
\* A place in the tree: the index in the top list, then key and index in the
\* list of that key, alternately.
C23_Places ==
    {p \in SeqsUpTo(1..(MaxTreeItems + MaxTreeKeys), 2 * MaxTreeDepth - 1) :
        Len(p) % 2 = 1}

\* The ItemType of the node at place p of the list; 0 if there is none.
RECURSIVE C23_TypeAt(_, _)
C23_TypeAt(list, p) ==
    IF Head(p) > Len(list) THEN 0
    ELSE IF Len(p) = 1 THEN list[Head(p)].ItemType
         ELSE IF p[2] > Len(list[Head(p)].lists) THEN 0
              ELSE C23_TypeAt(list[Head(p)].lists[p[2]], SubSeq(p, 3, Len(p)))

\* Depth-first pre-order: a node before the nodes below it, and the nodes
\* of a list, and the keys of a node, in their order.
RECURSIVE C23_Before(_, _)
C23_Before(p, q) ==
    IF p = <<>> THEN q # <<>>
    ELSE IF q = <<>> THEN FALSE
         ELSE \/ Head(p) < Head(q)
              \/ Head(p) = Head(q) /\ C23_Before(Tail(p), Tail(q))

\* C23: the list get_all_categories returns holds the nodes of the tree
\* with ItemType 2 and no other, each once, in depth-first pre-order.
C23_CategoriesInPreOrder ==
    pc = "gc_return" =>
        /\ {category_list[j].ItemNo : j \in 1..Len(category_list)} =
              {p \in C23_Places : C23_TypeAt(response_json, p) = 2}
        /\ \A j, k \in 1..Len(category_list) :
              j < k => C23_Before(category_list[j].ItemNo, category_list[k].ItemNo)

\* A node of another type with a category below it, a category below a
\* category under its second key, and a node that is not returned.
C23_Witness ==
    /\ pc = "gc_return"
    /\ Len(category_list) >= 3
    /\ C23_TypeAt(response_json, <<1>>) = 1
    /\ C23_TypeAt(response_json, <<1, 1, 1>>) = 2
    /\ C23_TypeAt(response_json, <<2>>) = 2
    /\ C23_TypeAt(response_json, <<2, 2, 1>>) = 2
    /\ C23_TypeAt(response_json, <<2, 1, 1>>) = 1

\* ------------------------------------------------------ chunking properties
C15_Words == Split(text)
C15_Step == chunk_size_arg - overlap_arg
C15_Window(k) == Split(windows[k])
C15_WordSet(k) == {C15_Window(k)[j] : j \in 1..Len(C15_Window(k))}

\* C15: chunk_text returns ceil(N / (s - o)) windows; window k (from 1) holds
\* the words (k-1)(s-o)+1 .. (k-1)(s-o)+s of the text, as far as the text
\* goes; no window has more than s words, a window shorter than s is
\* followed by shorter ones only, two consecutive windows of s words share
\* exactly o words (the last o of the first are the first o of the second),
\* and a text without words yields no window.
C15_ChunkTextWindows ==
    pc = "ct_return" =>
        LET N == Len(C15_Words)
            s == chunk_size_arg
            o == overlap_arg
        IN /\ Len(windows) * C15_Step >= N
           /\ (Len(windows) - 1) * C15_Step < N
           /\ \A k \in 1..Len(windows) :
                 /\ Len(C15_Window(k)) <= s
                 /\ Len(C15_Window(k)) = Min(s, N - (k - 1) * C15_Step)
                 /\ \A j \in 1..Len(C15_Window(k)) :
                       C15_Window(k)[j] = C15_Words[(k - 1) * C15_Step + j]
                 /\ \A k2 \in (k + 1)..Len(windows) :
                       Len(C15_Window(k)) < s => Len(C15_Window(k2)) < s
           /\ \A k \in 1..(Len(windows) - 1) :
                 (Len(C15_Window(k)) = s /\ Len(C15_Window(k + 1)) = s) =>
                     /\ Cardinality(C15_WordSet(k) \cap C15_WordSet(k + 1)) = o
                     /\ SubSeq(C15_Window(k), s - o + 1, s) = SubSeq(C15_Window(k + 1), 1, o)
           /\ (\A i \in 1..Len(text) : text[i] = Space) => windows = <<>>

\* Four words, windows of two with one shared: two full windows that overlap
\* and a shorter last one.
C15_Witness ==
    /\ pc = "ct_return"
    /\ Len(C15_Words) = 4
    /\ chunk_size_arg = 2 /\ overlap_arg = 1
    /\ Len(windows) = 4
    /\ Len(C15_Window(4)) = 1

\* ------------------------------------------------------ process properties
ProcessTenantDone == pc = "p_doc" /\ di > Len(docs_to_process)
ProcessRunEnd == pc = "p_tenant" /\ p_i > Len(tenant_configs)

ChunksOf(t, d) == Get(index[t], d)
OrdinalsOf(t, d) == {c.id[2] : c \in ChunksOf(t, d)}

\* C1: when process_tenant has gone through the tenant's documents, every
\* chunk of a document of the ledger carries the ledger's version of that
\* document (a document may have no chunk at all), whatever failed.
C1_VersionConsistentAtEnd ==
    ProcessTenantDone =>
        \A d \in DOMAIN ledger[CurrentTenant] :
            \A c \in ChunksOf(CurrentTenant, d) :
                c.version = ledger[CurrentTenant][d]

C1_Witness ==
    /\ ProcessTenantDone
    /\ \E i \in 1..Len(plog) : plog[i][2] = "failed"
    /\ \E d \in DOMAIN ledger[CurrentTenant] :
          /\ ledger[CurrentTenant][d] = MaxVersion
          /\ OrdinalsOf(CurrentTenant, d) = {0, 1}

\* C2: in every state, the chunks of a collection that share a parent
\* document carry one version.
C2_NeverMixedVersions ==
    \A t \in TenantNames : \A c1 \in index[t] : \A c2 \in index[t] :
        c1.parent_doc = c2.parent_doc => c1.version = c2.version

\* Between the delete of the old chunks and the last add of the new ones.
C2_Witness ==
    /\ pc = "pd_insert"
    /\ existing # {}
    /\ nchunks = 2
    /\ idx = 1
    /\ ChunksOf(CurrentTenant, CurrentDoc) # {}

\* C3 as stated: a process run over a ledger that has not changed since the
\* tenant was last indexed changes nothing in the index.
C3_SecondRunChangesNothing ==
    [][rerun => index' = index]_vars

\* The step adds one chunk of the document in progress, at its version.
C3_AddsForCurrentDoc ==
    /\ pc = "pd_insert"
    /\ index' = [index EXCEPT ![CurrentTenant] =
                    Add(@, ChunkId(CurrentDoc, idx), CurrentVersion, CurrentDoc)]

\* C3, amended: such a run deletes no chunk, and adds chunks only to a
\* document for which the lookup found no chunk at all (the earlier run left
\* it empty: no text, or a failed step); a document that has chunks is
\* skipped.
C3_SecondRunOnlyFillsEmpty ==
    [][rerun => (index' = index \/ (existing = {} /\ C3_AddsForCurrentDoc))]_vars

C3_Witness ==
    /\ rerun
    /\ ProcessTenantDone
    /\ \E i \in 1..Len(plog) : plog[i][2] = "skipped"

\* C6: when process_document returns without having skipped the document,
\* the index holds no chunk of it or every chunk the call set out to add
\* (the ordinals 0..n-1 of the segments of each file it embedded); and once
\* the call is past the delete, no chunk of another version is left to be
\* deleted after an add.
C6_AllOrNothing ==
    /\ (pc = "pd_return" /\ outcome # "skipped") =>
          \/ OrdinalsOf(CurrentTenant, CurrentDoc) = {}
          \/ OrdinalsOf(CurrentTenant, CurrentDoc) = want
    /\ pc \in {"pd_convert", "pd_file", "pd_insert"} =>
          \A c \in ChunksOf(CurrentTenant, CurrentDoc) : c.version = CurrentVersion

C10_FailureStep ==
    (outcome = "none" /\ outcome' = "failed") =>
        /\ pc' = "pd_return"
        /\ di' = di
        /\ docs_to_process' = docs_to_process
        /\ p_i' = p_i

C10_AllPassed ==
    /\ ProcessTenantDone =>
          [i \in 1..Len(plog) |-> plog[i][1]] =
              [i \in 1..Len(docs_to_process) |-> docs_to_process[i][1]]
    /\ ProcessRunEnd => [i \in 1..Len(ptlog) |-> ptlog[i][1]] = Tenants

\* C10: a failed conversion, extraction, embedding or add ends the
\* process_document call and nothing else: the loop goes on, so that at the
\* end of process_tenant every document read from the ledger has been passed
\* to process_document, in order, and at the end of the run every configured
\* tenant has been visited.
C10_DocumentFailureIsIsolated ==
    [][C10_FailureStep]_vars /\ []C10_AllPassed

C10_Witness ==
    /\ ProcessTenantDone
    /\ plog = <<<<1, "failed">>, <<2, "done">>>>
    /\ OrdinalsOf(CurrentTenant, 2) # {}

InDocument == pc \in {"pd_check", "pd_convert", "pd_file", "pd_insert", "pd_return"}

C16_NoDbStep ==
    (pc = "p_tenant" /\ p_i <= Len(tenant_configs) /\ tenant_configs[p_i] \notin dbfile) =>
        /\ index' = index
        /\ vectordb' = vectordb
        /\ docs_to_process' = docs_to_process
        /\ plog' = plog
        /\ pc' = "p_tenant"
        /\ p_i' = p_i + 1

C16_NothingWithoutDb ==
    /\ vectordb \subseteq dbfile
    /\ \A t \in TenantNames : index[t] # {} => t \in dbfile
    /\ (pc = "p_doc" \/ InDocument) => tenant_configs[p_i] \in dbfile
    /\ ProcessRunEnd =>
          /\ Len(ptlog) = Len(tenant_configs)
          /\ \A i \in 1..Len(ptlog) :
                /\ ptlog[i][1] = Tenants[i]
                /\ ptlog[i][2] = "nodb" <=> Tenants[i] \notin dbfile

\* C16: a tenant without a database file is passed over in one step that
\* creates no Chroma store, changes no index, reads no document and goes on
\* to the next tenant; no store or chunk ever exists for a tenant without a
\* database file, and the run visits every tenant.
C16_MissingDbSkipsTenant ==
    [][C16_NoDbStep]_vars /\ []C16_NothingWithoutDb

\* Tenant A has no database file and was passed; tenant B was indexed.
C16_Witness ==
    /\ ProcessRunEnd
    /\ ptlog = <<<<"A", "nodb">>, <<"B", "end">>>>
    /\ "A" \notin vectordb
    /\ index["B"] # {}

\* C17: when process_document returns, none of the files the conversion
\* wrote for the document is left in "output", and so "output" never holds a
\* file of an earlier document.
C17_NoFileLeft ==
    /\ pc = "pd_return" => output = {}
    /\ ~stale

C18_OwnStoreOnly ==
    /\ \A t \in TenantNames :
          (index'[t] # index[t] \/ (t \in vectordb' /\ t \notin vectordb)) =>
              (pc # "idle" /\ t = tenant_configs[p_i])
    /\ pc # "idle" => (ledger' = ledger /\ dbfile' = dbfile)
    /\ ledger' # ledger =>
          /\ index' = index
          /\ vectordb' = vectordb
          /\ Cardinality({t \in TenantNames : ledger'[t] # ledger[t]}) = 1

\* C18: a step that changes a tenant's index, or creates its Chroma store, is
\* a step of the process phase while that tenant is in progress; the process
\* phase writes no ledger, and a gather run that writes a tenant's ledger
\* writes no other ledger and no index.
C18_TenantsAreIsolated ==
    [][C18_OwnStoreOnly]_vars

\* The second tenant is being indexed while the first has chunks.
C18_Witness ==
    /\ pc = "pd_insert"
    /\ p_i = 2
    /\ idx = 1
    /\ index[Tenants[1]] # {}
    /\ index[Tenants[2]] # {}

\* C19: in a process run over a ledger unchanged since the tenant was last
\* indexed, a document whose last process_document call failed is not
\* skipped as already current, and when its call is done the index holds
\* every chunk the call set out to add.
C19_FailedIsRetried ==
    (rerun /\ pc = "pd_return" /\ CurrentDoc \in failed[CurrentTenant]) =>
        /\ outcome # "skipped"
        /\ outcome = "done" => OrdinalsOf(CurrentTenant, CurrentDoc) = want

\* C20: the id passed to collection.add is not the id of a chunk the index
\* holds (the chunks the document had before the call were deleted, so such
\* a chunk was added earlier in the same call).
C20_NoIdTwice ==
    (pc = "pd_insert" /\ idx < nchunks) =>
        ChunkId(CurrentDoc, idx) \notin Ids(index[CurrentTenant])

\* ---------------------------------------------------- pipeline properties
\* No process_document call of the tenant in progress has failed.
C21_NoFailure ==
    \A i \in 1..Len(plog) : plog[i][2] # "failed"

\* After a tenant's fetches and calls without failure: ledger and index hold
\* the version the fetches returned.
C21_UpstreamVersionStored ==
    (ProcessTenantDone /\ C21_NoFailure) =>
        \A d \in DOMAIN returned[CurrentTenant] :
            /\ d \in DOMAIN ledger[CurrentTenant]
            /\ ledger[CurrentTenant][d] = returned[CurrentTenant][d]
            /\ \A c \in ChunksOf(CurrentTenant, d) :
                  c.version = returned[CurrentTenant][d]

\* The process phase in progress belongs to the run whose gather phase ended.
C21_ProcessAfterGather ==
    pc \notin {"idle", "g_tenant"} => indexRuns = syncRuns

\* The ledger is written by the gather phase only, and the process phase
\* starts when the gather loop is exhausted.
C21_LedgerWrittenBeforeProcess ==
    /\ ledger' # ledger => (pc = "g_tenant" /\ pc' = "g_tenant")
    /\ (pc = "g_tenant" /\ pc' # "g_tenant") =>
          (gi > Len(tenant_configs) /\ pc' = "p_tenant")
    /\ pc' = "p_tenant" => pc \in {"g_tenant", "p_tenant", "p_doc"}

\* C21: when a pipeline run has fetched the tree and every admitted
\* category of a tenant without failure, and no process_document call of
\* the tenant failed, then for every document the fetches returned (with one
\* version) the ledger holds that version and the index holds no chunk of it
\* or chunks of that version only; the process phase of a run starts only
\* when its gather phase has ended, and writes no ledger.
C21_PipelineRunConverges ==
    /\ [](C21_UpstreamVersionStored /\ C21_ProcessAfterGather)
    /\ [][C21_LedgerWrittenBeforeProcess]_vars

\* The second run of the pipeline ends without failure for a tenant with two
\* documents: one was current and is skipped, the other is indexed at the
\* highest version with two chunks.
C21_Witness ==
    /\ ProcessTenantDone
    /\ C21_NoFailure
    /\ syncRuns = 2
    /\ DOMAIN returned[CurrentTenant] = DocNos
    /\ \E i \in 1..Len(plog) : plog[i][2] = "skipped"
    /\ \E i \in 1..Len(plog) :
          /\ plog[i][2] = "done"
          /\ returned[CurrentTenant][plog[i][1]] = MaxVersion
          /\ OrdinalsOf(CurrentTenant, plog[i][1]) = {0, 1}

\* C24: with one process run at a time (process() handles the tenants, and
\* process_tenant the documents, one after the other), no state mixes two
\* versions among the chunks of a document, and no collection.add is passed
\* the id of a chunk the index holds.
C24_SingleRunNeverMixesNorReinserts ==
    /\ \A t \in TenantNames : \A d \in DocNos :
          Cardinality({c.version : c \in ChunksOf(t, d)}) <= 1
    /\ \A t \in TenantNames :
          (pc = "pd_insert" /\ idx < nchunks /\ t = CurrentTenant) =>
              ChunkId(CurrentDoc, idx) \notin Ids(index[t])
====
